---- MODULE Spec2Model ----
(***************************************************************************)
(* A model of the bitendian crate: the BitEndian conversion trait and the  *)
(* Endian enumeration (src/src/lib.rs), the synchronous extension methods  *)
(* (src/src/io.rs) and the ReadEndian / WriteArray futures                 *)
(* (src/src/futures.rs, src/src/tokio.rs).                                 *)
(*                                                                         *)
(* A value of a numeric type is an integer; a byte array is a sequence of  *)
(* integers in 0..255.  The numeric types modelled are those whose values  *)
(* fit TLC's 32-bit integers: u8, i8, u16, i16 and i32.                    *)
(***************************************************************************)
EXTENDS Integers, Sequences, FiniteSets, TLC

VARIABLES
    target_endian,  \* cfg(target_endian) of the build: "little" or "big"
    \* ---- the conversion layer, exercised directly (SpecConv)
    cpc,            \* "start" | "encoded" | "decoded"
    cTy,            \* the numeric type T
    cIt,            \* the value `self` handed to to_bytes_endian
    cToEndian,      \* the `endian` handed to to_bytes_endian
    cBytes,         \* the byte array `bytes`
    cFromEndian,    \* the `endian` handed to from_bytes_endian
    cOut,           \* the value from_bytes_endian returned
    eCall           \* an Endian and what its three methods returned for it

VARIABLES
    \* ---- one stream: a file written, flushed, reopened and read back
    wMode,          \* the mode the caller writes this stream with
    rMode,          \* the mode the caller reads this stream with
    zeroWidth,      \* the caller's crate implements BitEndian<0> for a type
    stream,         \* the bytes the sink has accepted so far
    phase,          \* "write" before the reopen, "read" after it
    pos,            \* the reader's position in stream
    written,        \* the writes made, in order: <<[ty, it, endian, out]>>
    readlog,        \* the reads made, in order: <<[ty, endian, out]>>
    \* ---- the write in flight: WriteArray, or io::WriteExt::write_endian
    wpc,            \* "none" | "suspended" | "running" | "done"
    wFamily,        \* "io" | "futures" | "tokio"
    wTy, wIt, wEndian,  \* the arguments of write_endian
    wBuffer,        \* WriteArray.buffer
    wProgress,      \* WriteArray.progress
    wStart,         \* Len(stream) when the write began
    wOps,           \* underlying writes of this machine that transferred data
    wSuspended,     \* this machine has returned Poll::Pending
    wLoop,          \* parity of the loop iterations of the current poll
    wLast,          \* what the last underlying write reported
    wOut,           \* io::Result<()> once done
    \* ---- the read in flight: ReadEndian, or io::ReadExt::read_endian
    rpc,            \* "none" | "suspended" | "running" | "done"
    rFamily,        \* "io" | "futures" | "tokio"
    rTy,            \* the target type T
    rEndian,        \* ReadEndian.endian
    rBuffer,        \* ReadEndian.buffer
    rProgress,      \* ReadEndian.progress
    rStart,         \* pos when the read began
    rOps,           \* underlying reads of this machine that transferred data
    rSuspended,     \* this machine has returned Poll::Pending
    rLast,          \* what the last underlying read reported
    rOut            \* io::Result<T> once done

convVars == <<cpc, cTy, cIt, cToEndian, cBytes, cFromEndian, cOut, eCall>>

streamVars == <<stream, phase, pos, written, readlog>>

writeVars == <<wpc, wFamily, wTy, wIt, wEndian, wBuffer, wProgress, wStart,
               wOps, wSuspended, wLoop, wLast, wOut>>

readVars == <<rpc, rFamily, rTy, rEndian, rBuffer, rProgress, rStart, rOps,
              rSuspended, rLast, rOut>>

modeVars == <<wMode, rMode, zeroWidth>>

ioVars == <<modeVars, streamVars, writeVars, readVars>>

vars == <<target_endian, convVars, ioVars>>

\* ------------------------------------------------------------------------
\* Endian (lib.rs:190-226)
\* ------------------------------------------------------------------------

Endian == {"Little", "Big", "Network", "Native"}

Targets == {"little", "big"}

\* a canonical() without the cfg(target_endian) arms: Native is Big
canonical_native_big(self) ==
    CASE self = "Little" -> "Little"
      [] self \in {"Big", "Network", "Native"} -> "Big"

canonical(self) ==
    CASE self = "Little" -> "Little"
      [] self \in {"Big", "Network"} -> "Big"
      [] self = "Native" /\ target_endian = "big" -> "Big"
      [] self = "Native" /\ target_endian = "little" -> "Little"

is_big(self) == canonical(self) = "Big"

is_little(self) == canonical(self) = "Little"

\* ------------------------------------------------------------------------
\* The numeric types of bit_endian! (lib.rs:171-177) that the model covers
\* ------------------------------------------------------------------------

Types == {"u8", "i8", "u16", "i16", "i32"}

\* the $width of each $ty in the bit_endian! invocation
Width(ty) ==
    CASE ty \in {"u8", "i8"} -> 1
      [] ty \in {"u16", "i16"} -> 2
      [] ty = "i32" -> 4
      [] ty = "unit" -> 0

Signed(ty) == ty \in {"i8", "i16", "i32"}

Byte == 0..255

Pow256(k) == 256 ^ k

\* every value of T (1-byte types), or a sample with the extremes (wider)
Values(ty) ==
    CASE ty = "u8" -> 0..255
      [] ty = "i8" -> -128..127
      [] ty = "u16" -> {0, 1, 255, 256, 257, 4660, 32767, 32768, 65535}
      [] ty = "i16" -> {-32768, -32767, -257, -256, -2, -1, 0, 1, 256, 258, 32767}
      [] ty = "i32" -> {-2147483647 - 1, -500000, -2, -1, 0, 1, 256, 65536,
                        16909060, 499999, 2147483647}

\* ------------------------------------------------------------------------
\* The primitive conversions the macro delegates to (lib.rs:146-166).
\* A byte of a value is taken by floored division, which is the two's
\* complement digit for a negative value.
\* ------------------------------------------------------------------------

to_le_bytes(ty, self) ==
    [i \in 1..Width(ty) |-> (self \div Pow256(i - 1)) % 256]

\* to_be_bytes as a slip would have it: least significant byte first
to_be_bytes_lsb_first(ty, self) ==
    [i \in 1..Width(ty) |-> (self \div Pow256(i - 1)) % 256]

to_be_bytes(ty, self) ==
    [i \in 1..Width(ty) |-> (self \div Pow256(Width(ty) - i)) % 256]

to_ne_bytes(ty, self) ==
    IF target_endian = "little" THEN to_le_bytes(ty, self)
                                ELSE to_be_bytes(ty, self)

\* the value whose digits, least significant first, are d[1..n]; the most
\* significant digit of a signed type counts as negative from 128 on
RECURSIVE Digits(_, _, _)
Digits(ty, d, n) ==
    IF n = 0 THEN 0
    ELSE LET top == IF n = Len(d) /\ Signed(ty) /\ d[n] >= 128
                    THEN d[n] - 256 ELSE d[n]
         IN top * Pow256(n - 1) + Digits(ty, d, n - 1)

Reverse(s) == [i \in 1..Len(s) |-> s[Len(s) + 1 - i]]

\* from_le_bytes as a slip would have it: first byte most significant
from_le_bytes_msb_first(ty, bytes) == Digits(ty, Reverse(bytes), Len(bytes))

from_le_bytes(ty, bytes) == Digits(ty, bytes, Len(bytes))

\* from_be_bytes as a slip would have it: the bytes are not swapped
from_be_bytes_unswapped(ty, bytes) == Digits(ty, bytes, Len(bytes))

from_be_bytes(ty, bytes) == Digits(ty, Reverse(bytes), Len(bytes))

from_ne_bytes(ty, bytes) ==
    IF target_endian = "little" THEN from_le_bytes(ty, bytes)
                                ELSE from_be_bytes(ty, bytes)

\* ------------------------------------------------------------------------
\* BitEndian's run-time dispatchers (lib.rs:104-113, 130-139)
\* ------------------------------------------------------------------------

\* to_bytes_endian with Network in the arm of Native instead of Big
to_bytes_endian_network_native(ty, self, endian) ==
    CASE endian = "Little" -> to_le_bytes(ty, self)
      [] endian = "Big" -> to_be_bytes(ty, self)
      [] endian \in {"Network", "Native"} -> to_ne_bytes(ty, self)

to_bytes_endian(ty, self, endian) ==
    CASE endian = "Little" -> to_le_bytes(ty, self)
      [] endian \in {"Big", "Network"} -> to_be_bytes(ty, self)
      [] endian = "Native" -> to_ne_bytes(ty, self)

\* a dispatcher whose Native arm is the little-endian one on every target
from_bytes_endian_native_little(ty, bytes, endian) ==
    CASE endian \in {"Little", "Native"} -> from_le_bytes(ty, bytes)
      [] endian \in {"Big", "Network"} -> from_be_bytes(ty, bytes)

from_bytes_endian(ty, bytes, endian) ==
    CASE endian = "Little" -> from_le_bytes(ty, bytes)
      [] endian \in {"Big", "Network"} -> from_be_bytes(ty, bytes)
      [] endian = "Native" -> from_ne_bytes(ty, bytes)

NoValue == "none"

\* io::Result: Ok(val) or Err(err); ResNone while the operation is in flight
ResNone == [kind |-> "None", val |-> 0, err |-> ""]

ResOk(v) == [kind |-> "Ok", val |-> v, err |-> ""]

ResErr(e) == [kind |-> "Err", val |-> 0, err |-> e]

\* a future dropped before it completed: the caller got no result
ResDropped == [kind |-> "Dropped", val |-> 0, err |-> ""]

\* what an underlying poll_read / poll_write / read / write reports
IoNone == [kind |-> "None", n |-> 0, err |-> ""]

IoPending == [kind |-> "Pending", n |-> 0, err |-> ""]

IoOk(k) == [kind |-> "Ok", n |-> k, err |-> ""]

IoErr(e) == [kind |-> "Err", n |-> 0, err |-> e]

\* no write in flight
NoWrite ==
    /\ wpc = "none" /\ wFamily = NoValue /\ wTy = NoValue /\ wIt = 0
    /\ wEndian = NoValue /\ wBuffer = <<>> /\ wProgress = 0 /\ wStart = 0
    /\ wOps = 0 /\ wSuspended = FALSE /\ wLast = IoNone /\ wOut = ResNone
    /\ wLoop = FALSE

\* no stream and no machine: the state of the I/O layer before any call
IoIdle ==
    /\ stream = <<>> /\ phase = "write" /\ pos = 0
    /\ written = <<>> /\ readlog = <<>>
    /\ NoWrite
    /\ rpc = "none" /\ rFamily = NoValue /\ rTy = NoValue
    /\ rEndian = NoValue /\ rBuffer = <<>> /\ rProgress = 0 /\ rStart = 0
    /\ rOps = 0 /\ rSuspended = FALSE /\ rLast = IoNone /\ rOut = ResNone

\* ------------------------------------------------------------------------
\* SpecConv: the conversion layer called directly
\* ------------------------------------------------------------------------

\* no method of Endian called yet
NoCall ==
    [called |-> FALSE, self |-> NoValue, canonical |-> NoValue,
     again |-> NoValue, is_big |-> FALSE, is_little |-> FALSE]

InitConv ==
    /\ target_endian \in Targets
    /\ cpc = "start"
    /\ cTy \in Types
    /\ cIt \in Values(cTy)
    /\ cToEndian = NoValue
    /\ cBytes = <<>>
    /\ cFromEndian = NoValue
    /\ cOut = NoValue
    /\ eCall = NoCall
    /\ wMode = NoValue /\ rMode = NoValue /\ zeroWidth = FALSE
    /\ IoIdle

\* it.to_bytes_endian(endian)
ToBytesEndian ==
    /\ cpc = "start"
    /\ \E endian \in Endian :
        /\ cToEndian' = endian
        /\ cBytes' = to_bytes_endian(cTy, cIt, endian)
    /\ cpc' = "encoded"
    /\ UNCHANGED <<target_endian, cTy, cIt, cFromEndian, cOut, eCall, ioVars>>

\* T::from_bytes_endian(bytes, endian)
FromBytesEndian ==
    /\ cpc = "encoded"
    /\ \E endian \in Endian :
        /\ cFromEndian' = endian
        /\ cOut' = from_bytes_endian(cTy, cBytes, endian)
    /\ cpc' = "decoded"
    /\ UNCHANGED <<target_endian, cTy, cIt, cToEndian, cBytes, eCall, ioVars>>

\* let c = endian.canonical(); c.canonical(); endian.is_big();
\* endian.is_little()
Canonical ==
    /\ ~eCall.called
    /\ \E self \in Endian :
        eCall' = [called |-> TRUE, self |-> self,
                  canonical |-> canonical(self),
                  again |-> canonical(canonical(self)),
                  is_big |-> is_big(self),
                  is_little |-> is_little(self)]
    /\ UNCHANGED <<target_endian, cpc, cTy, cIt, cToEndian, cBytes,
                   cFromEndian, cOut, ioVars>>

NextConv == ToBytesEndian \/ FromBytesEndian \/ Canonical

SpecConv == InitConv /\ [][NextConv]_vars

\* ------------------------------------------------------------------------
\* The streaming layer: io.rs, futures.rs, tokio.rs
\* ------------------------------------------------------------------------

MaxWrites == 2

MaxReads == 2

\* ReadEndian futures the caller drops before they complete, per stream
MaxDrops == 1

\* the modes of write_be / write_le / write_ne and read_be / read_le /
\* read_ne (io.rs:29-40, 52-63; futures.rs:82-93, 145-156)
StreamModes == {"Big", "Little", "Native"}

Families == {"io", "futures", "tokio"}

\* the types and values sent over the stream: a 1-byte and a 2-byte type
StreamTypes == {"u8", "u16"}

StreamValues(ty) ==
    CASE ty = "u8" -> {200}
      [] ty = "u16" -> {1, 4660}
      [] ty = "unit" -> {0}

\* the types the caller can name: those of bit_endian! and, where the
\* caller's crate has one, a type "unit" with impl BitEndian<0> (lib.rs:88
\* leaves N to the implementor)
CallerTypes == StreamTypes \cup (IF zeroWidth THEN {"unit"} ELSE {})

\* std::io::ErrorKind values an underlying operation may fail with
IoErrors == {"BrokenPipe", "Interrupted"}

Min(a, b) == IF a <= b THEN a ELSE b

\* [0u8; N]
Zeroes(n) == [i \in 1..n |-> 0]

\* What one underlying write of a slice of `len` bytes may report: not ready
\* (asynchronous sinks only), an error, or any number of bytes up to len.
WriteReports(family, len) ==
    (IF family = "io" THEN {} ELSE {IoPending})
    \cup {IoErr(e) : e \in IoErrors}
    \cup {IoOk(k) : k \in 0..len}

\* What one underlying read into a slice of `len` bytes may report when the
\* source still holds `avail` bytes: zero only at the end of the source or
\* for an empty slice.
ReadReports(family, len, avail) ==
    (IF family = "io" THEN {} ELSE {IoPending})
    \cup {IoErr(e) : e \in IoErrors}
    \cup {IoOk(k) : k \in (IF len = 0 \/ avail = 0 THEN {0}
                               ELSE 1..Min(len, avail))}

\* ---- WriteArray (futures.rs:99-134, tokio.rs:100-135)

\* WriteArray::new encoding with to_ne_bytes whatever the mode
\* a constructor that leaves the encoding for later: buffer [0u8; N]
WriteArray_new_lazy(ty, it, endian) ==
    [buffer |-> Zeroes(Width(ty)), progress |-> 0]

WriteArray_new_native(ty, it, endian) ==
    [buffer |-> to_ne_bytes(ty, it), progress |-> 0]

\* WriteArray::new: buffer, progress
WriteArray_new(ty, it, endian) ==
    [buffer |-> to_bytes_endian(ty, it, endian), progress |-> 0]

\* the slice taken from the start of the buffer, not from progress
WriteSlice_whole(buffer, progress) == buffer

\* &this.buffer[*this.progress..]
WriteSlice(buffer, progress) == SubSeq(buffer, progress + 1, Len(buffer))

\* WriteArray::poll comparing progress with N - 1: done one byte early
WriteArray_poll_early(buffer, progress, res) ==
    CASE res.kind = "Pending" ->
            [pc |-> "suspended", progress |-> progress, out |-> ResNone]
      [] res.kind = "Err" ->
            [pc |-> "done", progress |-> progress, out |-> ResErr(res.err)]
      [] res.kind = "Ok" ->
            IF progress + res.n >= Len(buffer) - 1
            THEN [pc |-> "done", progress |-> progress + res.n,
                  out |-> ResOk(0)]
            ELSE [pc |-> "running", progress |-> progress + res.n,
                  out |-> ResNone]

\* WriteArray::poll going round the loop again after an error
WriteArray_poll_retries(buffer, progress, res) ==
    CASE res.kind = "Pending" ->
            [pc |-> "suspended", progress |-> progress, out |-> ResNone]
      [] res.kind = "Err" ->
            [pc |-> "running", progress |-> progress, out |-> ResNone]
      [] res.kind = "Ok" ->
            IF progress + res.n >= Len(buffer)
            THEN [pc |-> "done", progress |-> progress + res.n,
                  out |-> ResOk(0)]
            ELSE [pc |-> "running", progress |-> progress + res.n,
                  out |-> ResNone]

\* one turn of the loop of WriteArray::poll, given what poll_write reported
\* a loop that counts writes, not bytes: *this.progress += 1
WriteArray_poll_counts_calls(buffer, progress, res) ==
    CASE res.kind = "Pending" ->
            [pc |-> "suspended", progress |-> progress, out |-> ResNone]
      [] res.kind = "Err" ->
            [pc |-> "done", progress |-> progress, out |-> ResErr(res.err)]
      [] res.kind = "Ok" /\ res.n = 0 ->
            [pc |-> "running", progress |-> progress, out |-> ResNone]
      [] res.kind = "Ok" /\ res.n > 0 ->
            IF progress + 1 >= Len(buffer)
            THEN [pc |-> "done", progress |-> progress + 1, out |-> ResOk(0)]
            ELSE [pc |-> "running", progress |-> progress + 1,
                  out |-> ResNone]

\* a loop whose completion test is progress > N
WriteArray_poll_late(buffer, progress, res) ==
    CASE res.kind = "Pending" ->
            [pc |-> "suspended", progress |-> progress, out |-> ResNone]
      [] res.kind = "Err" ->
            [pc |-> "done", progress |-> progress, out |-> ResErr(res.err)]
      [] res.kind = "Ok" ->
            IF progress + res.n > Len(buffer)
            THEN [pc |-> "done", progress |-> progress + res.n,
                  out |-> ResOk(0)]
            ELSE [pc |-> "running", progress |-> progress + res.n,
                  out |-> ResNone]

\* a future that starts over after a suspension: Pending resets progress
WriteArray_poll_pending_resets(buffer, progress, res) ==
    CASE res.kind = "Pending" ->
            [pc |-> "suspended", progress |-> 0, out |-> ResNone]
      [] res.kind = "Err" ->
            [pc |-> "done", progress |-> progress, out |-> ResErr(res.err)]
      [] res.kind = "Ok" ->
            IF progress + res.n >= Len(buffer)
            THEN [pc |-> "done", progress |-> progress + res.n,
                  out |-> ResOk(0)]
            ELSE [pc |-> "running", progress |-> progress + res.n,
                  out |-> ResNone]

\* a loop that treats a zero-byte write as write_all does
WriteArray_poll_zero_fails(buffer, progress, res) ==
    CASE res.kind = "Pending" ->
            [pc |-> "suspended", progress |-> progress, out |-> ResNone]
      [] res.kind = "Err" ->
            [pc |-> "done", progress |-> progress, out |-> ResErr(res.err)]
      [] res.kind = "Ok" /\ res.n = 0 ->
            [pc |-> "done", progress |-> progress, out |-> ResErr("WriteZero")]
      [] res.kind = "Ok" /\ res.n > 0 ->
            IF progress + res.n >= Len(buffer)
            THEN [pc |-> "done", progress |-> progress + res.n,
                  out |-> ResOk(0)]
            ELSE [pc |-> "running", progress |-> progress + res.n,
                  out |-> ResNone]

WriteArray_poll(buffer, progress, res) ==
    CASE res.kind = "Pending" ->
            [pc |-> "suspended", progress |-> progress, out |-> ResNone]
      [] res.kind = "Err" ->
            [pc |-> "done", progress |-> progress, out |-> ResErr(res.err)]
      [] res.kind = "Ok" ->
            IF progress + res.n >= Len(buffer)
            THEN [pc |-> "done", progress |-> progress + res.n,
                  out |-> ResOk(0)]
            ELSE [pc |-> "running", progress |-> progress + res.n,
                  out |-> ResNone]

\* one turn of the loop of std's write_all, which io.rs:50 calls
write_all(buffer, progress, res) ==
    CASE res.kind = "Err" /\ res.err = "Interrupted" ->
            [pc |-> "running", progress |-> progress, out |-> ResNone]
      [] res.kind = "Err" /\ res.err # "Interrupted" ->
            [pc |-> "done", progress |-> progress, out |-> ResErr(res.err)]
      [] res.kind = "Ok" /\ res.n = 0 ->
            [pc |-> "done", progress |-> progress, out |-> ResErr("WriteZero")]
      [] res.kind = "Ok" /\ res.n > 0 ->
            IF progress + res.n >= Len(buffer)
            THEN [pc |-> "done", progress |-> progress + res.n,
                  out |-> ResOk(0)]
            ELSE [pc |-> "running", progress |-> progress + res.n,
                  out |-> ResNone]

RECURSIVE Drops(_)
Drops(log) ==
    IF log = <<>> THEN 0
    ELSE (IF log[Len(log)].out.kind = "Dropped" THEN 1 ELSE 0)
         + Drops(SubSeq(log, 1, Len(log) - 1))

WriteEntry(out) == [ty |-> wTy, it |-> wIt, endian |-> wEndian, out |-> out]

\* write_endian(it, endian) of io::WriteExt or of an AsyncWriteExt: the
\* value is encoded; a future is returned unpolled, a blocking call begins.
\* The caller stops at the first operation that returned an error (the `?`
\* and unwrap() of the examples and tests).
WriteEndian ==
    /\ phase = "write"
    /\ wpc \in {"none", "done"}
    /\ wOut.kind # "Err"
    /\ Len(written) < MaxWrites
    /\ \E family \in Families, ty \in CallerTypes :
        \E it \in StreamValues(ty) :
            LET m == WriteArray_new(ty, it, wMode)
                \* write_all of an empty array returns Ok without a write
                empty == family = "io" /\ Len(m.buffer) = 0
            IN
            /\ wFamily' = family
            /\ wTy' = ty /\ wIt' = it /\ wEndian' = wMode
            /\ wBuffer' = m.buffer
            /\ wProgress' = m.progress
            /\ wpc' = IF empty THEN "done"
                      ELSE IF family = "io" THEN "running" ELSE "suspended"
            /\ wOut' = IF empty THEN ResOk(0) ELSE ResNone
            /\ written' = IF empty
                          THEN Append(written, [ty |-> ty, it |-> it,
                                                endian |-> wMode,
                                                out |-> ResOk(0)])
                          ELSE written
    /\ wStart' = Len(stream)
    /\ wOps' = 0
    /\ wSuspended' = FALSE
    /\ wLoop' = FALSE
    /\ wLast' = IoNone
    /\ UNCHANGED <<target_endian, convVars, modeVars, stream, phase, pos,
                   readlog, readVars>>

\* One underlying write and what the loop around it does with the report;
\* from "suspended" this is the first write of a new drive step.
WritePoll ==
    /\ wpc \in {"suspended", "running"}
    /\ \E res \in WriteReports(wFamily, Len(wBuffer) - wProgress) :
        LET s == IF wFamily = "io" THEN write_all(wBuffer, wProgress, res)
                 ELSE WriteArray_poll(wBuffer, wProgress, res)
        IN
        /\ stream' = stream \o SubSeq(WriteSlice(wBuffer, wProgress), 1, res.n)
        /\ wProgress' = s.progress
        /\ wpc' = s.pc
        /\ wOut' = s.out
        /\ wLast' = res
        /\ wOps' = IF res.n > 0 THEN wOps + 1 ELSE wOps
        /\ wSuspended' = (wSuspended \/ res.kind = "Pending")
        /\ wLoop' = (s.pc = "running" /\ ~wLoop)
        /\ written' = IF s.pc = "done" THEN Append(written, WriteEntry(s.out))
                      ELSE written
    /\ UNCHANGED <<target_endian, convVars, modeVars, phase, pos, readlog, readVars,
                   wFamily, wTy, wIt, wEndian, wBuffer, wStart>>

\* f.flush(); f.reopen(): the stream is read back from its start
Reopen ==
    /\ phase = "write"
    /\ wpc \in {"none", "done"}
    /\ wOut.kind # "Err"
    /\ phase' = "read"
    /\ pos' = 0
    /\ wpc' = "none" /\ wFamily' = NoValue /\ wTy' = NoValue /\ wIt' = 0
    /\ wEndian' = NoValue /\ wBuffer' = <<>> /\ wProgress' = 0 /\ wStart' = 0
    /\ wOps' = 0 /\ wSuspended' = FALSE /\ wLast' = IoNone /\ wOut' = ResNone
    /\ wLoop' = FALSE
    /\ UNCHANGED <<target_endian, convVars, modeVars, stream, written, readlog, readVars>>

\* ---- ReadEndian (futures.rs:29-71, tokio.rs:29-72)

\* ReadEndian::new: buffer, progress, endian
\* a constructor that picks up what an abandoned future of the same width
\* left behind
ReadEndian_new_resumes(ty, endian) ==
    IF rOut.kind = "Dropped" /\ Len(rBuffer) = Width(ty)
    THEN [buffer |-> rBuffer, progress |-> rProgress, endian |-> endian]
    ELSE [buffer |-> Zeroes(Width(ty)), progress |-> 0, endian |-> endian]

ReadEndian_new(ty, endian) ==
    [buffer |-> Zeroes(Width(ty)), progress |-> 0, endian |-> endian]

\* the source handed the whole buffer, not the unfilled suffix
ReadInto_at_start(buffer, progress, data) ==
    [i \in 1..Len(buffer) |-> IF i <= Len(data) THEN data[i] ELSE buffer[i]]

\* the buffer after the source put `data` at the start of
\* &mut this.buffer[*this.progress..]
ReadInto(buffer, progress, data) ==
    [i \in 1..Len(buffer) |->
        IF progress < i /\ i <= progress + Len(data)
        THEN data[i - progress] ELSE buffer[i]]

\* futures: the count poll_read returned; tokio: buf.filled().len()
Transferred(family, res) == res.n

\* ReadEndian::poll without the progress == 0 test: at the end of the source
\* it decodes the buffer as it stands
ReadEndian_poll_zero_pads(ty, buffer, progress, endian, k, res) ==
    CASE res.kind = "Pending" ->
            [pc |-> "suspended", progress |-> progress, out |-> ResNone]
      [] res.kind = "Err" ->
            [pc |-> "done", progress |-> progress, out |-> ResErr(res.err)]
      [] res.kind = "Ok" ->
            IF progress + k >= Len(buffer) \/ k = 0
            THEN [pc |-> "done", progress |-> progress + k,
                  out |-> ResOk(from_bytes_endian(ty, buffer, endian))]
            ELSE [pc |-> "running", progress |-> progress + k,
                  out |-> ResNone]

\* one turn of the loop of ReadEndian::poll, given what poll_read reported
\* and the buffer as the source left it
\* a loop whose completion test is progress > N
ReadEndian_poll_late(ty, buffer, progress, endian, k, res) ==
    CASE res.kind = "Pending" ->
            [pc |-> "suspended", progress |-> progress, out |-> ResNone]
      [] res.kind = "Err" ->
            [pc |-> "done", progress |-> progress, out |-> ResErr(res.err)]
      [] res.kind = "Ok" /\ k = 0 ->
            [pc |-> "done", progress |-> progress,
             out |-> ResErr("UnexpectedEof")]
      [] res.kind = "Ok" /\ k > 0 ->
            IF progress + k > Len(buffer)
            THEN [pc |-> "done", progress |-> progress + k,
                  out |-> ResOk(from_bytes_endian(ty, buffer, endian))]
            ELSE [pc |-> "running", progress |-> progress + k,
                  out |-> ResNone]

\* a future that starts over after a suspension: Pending resets progress
ReadEndian_poll_pending_resets(ty, buffer, progress, endian, k, res) ==
    CASE res.kind = "Pending" ->
            [pc |-> "suspended", progress |-> 0, out |-> ResNone]
      [] res.kind = "Err" ->
            [pc |-> "done", progress |-> progress, out |-> ResErr(res.err)]
      [] res.kind = "Ok" /\ k = 0 ->
            [pc |-> "done", progress |-> progress,
             out |-> ResErr("UnexpectedEof")]
      [] res.kind = "Ok" /\ k > 0 ->
            IF progress + k >= Len(buffer)
            THEN [pc |-> "done", progress |-> progress + k,
                  out |-> ResOk(from_bytes_endian(ty, buffer, endian))]
            ELSE [pc |-> "running", progress |-> progress + k,
                  out |-> ResNone]

\* a loop that counts reads, not bytes: *this.progress += 1
ReadEndian_poll_counts_calls(ty, buffer, progress, endian, k, res) ==
    CASE res.kind = "Pending" ->
            [pc |-> "suspended", progress |-> progress, out |-> ResNone]
      [] res.kind = "Err" ->
            [pc |-> "done", progress |-> progress, out |-> ResErr(res.err)]
      [] res.kind = "Ok" /\ k = 0 ->
            [pc |-> "done", progress |-> progress,
             out |-> ResErr("UnexpectedEof")]
      [] res.kind = "Ok" /\ k > 0 ->
            IF progress + 1 >= Len(buffer)
            THEN [pc |-> "done", progress |-> progress + 1,
                  out |-> ResOk(from_bytes_endian(ty, buffer, endian))]
            ELSE [pc |-> "running", progress |-> progress + 1,
                  out |-> ResNone]

ReadEndian_poll(ty, buffer, progress, endian, k, res) ==
    CASE res.kind = "Pending" ->
            [pc |-> "suspended", progress |-> progress, out |-> ResNone]
      [] res.kind = "Err" ->
            [pc |-> "done", progress |-> progress, out |-> ResErr(res.err)]
      [] res.kind = "Ok" /\ k = 0 ->
            [pc |-> "done", progress |-> progress,
             out |-> ResErr("UnexpectedEof")]
      [] res.kind = "Ok" /\ k > 0 ->
            IF progress + k >= Len(buffer)
            THEN [pc |-> "done", progress |-> progress + k,
                  out |-> ResOk(from_bytes_endian(ty, buffer, endian))]
            ELSE [pc |-> "running", progress |-> progress + k,
                  out |-> ResNone]

\* one turn of the loop of std's read_exact, which io.rs:26 calls, followed
\* by io.rs:27 once the array is full
read_endian(ty, buffer, progress, endian, k, res) ==
    CASE res.kind = "Err" /\ res.err = "Interrupted" ->
            [pc |-> "running", progress |-> progress, out |-> ResNone]
      [] res.kind = "Err" /\ res.err # "Interrupted" ->
            [pc |-> "done", progress |-> progress, out |-> ResErr(res.err)]
      [] res.kind = "Ok" /\ k = 0 ->
            [pc |-> "done", progress |-> progress,
             out |-> ResErr("UnexpectedEof")]
      [] res.kind = "Ok" /\ k > 0 ->
            IF progress + k >= Len(buffer)
            THEN [pc |-> "done", progress |-> progress + k,
                  out |-> ResOk(from_bytes_endian(ty, buffer, endian))]
            ELSE [pc |-> "running", progress |-> progress + k,
                  out |-> ResNone]

ReadEntry(out) == [ty |-> rTy, endian |-> rEndian, out |-> out]

\* read_endian(endian) of io::ReadExt or of an AsyncReadExt
ReadEndian ==
    /\ phase = "read"
    /\ rpc \in {"none", "done"}
    /\ rOut.kind # "Err"
    /\ Len(readlog) < MaxReads
    /\ \E family \in Families, ty \in CallerTypes :
        LET m == ReadEndian_new(ty, rMode)
            \* read_exact into an empty array returns Ok without a read
            empty == family = "io" /\ Len(m.buffer) = 0
            out == ResOk(from_bytes_endian(ty, m.buffer, m.endian))
        IN
        /\ rFamily' = family
        /\ rTy' = ty
        /\ rEndian' = m.endian
        /\ rBuffer' = m.buffer
        /\ rProgress' = m.progress
        /\ rpc' = IF empty THEN "done"
                  ELSE IF family = "io" THEN "running" ELSE "suspended"
        /\ rOut' = IF empty THEN out ELSE ResNone
        /\ readlog' = IF empty
                      THEN Append(readlog, [ty |-> ty, endian |-> m.endian,
                                            out |-> out])
                      ELSE readlog
    /\ rStart' = pos
    /\ rOps' = 0
    /\ rSuspended' = FALSE
    /\ rLast' = IoNone
    /\ UNCHANGED <<target_endian, convVars, modeVars, stream, phase, pos,
                   written, writeVars>>

\* One underlying read and what the loop around it does with the report;
\* from "suspended" this is the first read of a new drive step.
ReadPoll ==
    /\ rpc \in {"suspended", "running"}
    /\ \E res \in ReadReports(rFamily, Len(rBuffer) - rProgress,
                              Len(stream) - pos) :
        LET k == Transferred(rFamily, res)
            buf == ReadInto(rBuffer, rProgress, SubSeq(stream, pos + 1, pos + res.n))
            s == IF rFamily = "io"
                 THEN read_endian(rTy, buf, rProgress, rEndian, k, res)
                 ELSE ReadEndian_poll(rTy, buf, rProgress, rEndian, k, res)
        IN
        /\ pos' = pos + res.n
        /\ rBuffer' = buf
        /\ rProgress' = s.progress
        /\ rpc' = s.pc
        /\ rOut' = s.out
        /\ rLast' = res
        /\ rOps' = IF res.n > 0 THEN rOps + 1 ELSE rOps
        /\ rSuspended' = (rSuspended \/ res.kind = "Pending")
        /\ readlog' = IF s.pc = "done" THEN Append(readlog, ReadEntry(s.out))
                      ELSE readlog
    /\ UNCHANGED <<target_endian, convVars, modeVars, stream, phase, written, writeVars,
                   rFamily, rTy, rEndian, rStart>>

\* the caller drops a ReadEndian that is not complete
ReadDrop ==
    /\ rpc = "suspended"
    /\ Drops(readlog) < MaxDrops
    /\ rpc' = "done"
    /\ rOut' = ResDropped
    /\ readlog' = Append(readlog, ReadEntry(ResDropped))
    /\ UNCHANGED <<target_endian, convVars, modeVars, stream, phase, pos, written,
                   writeVars, rFamily, rTy, rEndian, rBuffer, rProgress,
                   rStart, rOps, rSuspended, rLast>>

ConvIdle ==
    /\ cpc = "start" /\ cTy = NoValue /\ cIt = 0 /\ cToEndian = NoValue
    /\ cBytes = <<>> /\ cFromEndian = NoValue /\ cOut = NoValue
    /\ eCall = NoCall

Init ==
    /\ target_endian \in Targets
    /\ ConvIdle
    /\ wMode \in StreamModes
    /\ rMode \in StreamModes
    /\ zeroWidth = FALSE
    /\ IoIdle

Next ==
    \/ WriteEndian
    \/ WritePoll
    \/ Reopen
    \/ ReadEndian
    \/ ReadPoll
    \/ ReadDrop

Spec == Init /\ [][Next]_vars

\* a poll that has been called runs its loop: every iteration that is
\* possible is eventually taken
Fairness == WF_vars(WritePoll) /\ WF_vars(ReadPoll)

SpecFair == Init /\ [][Next]_vars /\ Fairness

\* the same program in a crate that also implements BitEndian<0>
InitZero ==
    /\ target_endian \in Targets
    /\ ConvIdle
    /\ wMode \in StreamModes
    /\ rMode \in StreamModes
    /\ zeroWidth = TRUE
    /\ IoIdle

SpecZero == InitZero /\ [][Next]_vars

\* ------------------------------------------------------------------------
\* Properties of the conversion layer (checked under SpecConv)
\* ------------------------------------------------------------------------

\* C1: decoding the encoding of a value with the same mode, Little, Big or
\* Native, gives the value back.
RoundTrip ==
    (cpc = "decoded" /\ cFromEndian = cToEndian
        /\ cToEndian \in {"Little", "Big", "Native"})
    => cOut = cIt

RoundTripWitness ==
    /\ cpc = "decoded"
    /\ cTy = "i32" /\ cIt = -500000
    /\ cToEndian = "Big" /\ cFromEndian = "Big"
    /\ cBytes = <<255, 248, 94, 224>>
    /\ cOut = -500000

\* C6: the u16 value 256 is encoded as [1, 0] with Big and as [0, 1] with
\* Little.
EncodeByteOrder ==
    (cpc # "start" /\ cTy = "u16" /\ cIt = 256)
    => /\ cToEndian = "Big" => cBytes = <<1, 0>>
       /\ cToEndian = "Little" => cBytes = <<0, 1>>

EncodeByteOrderWitness ==
    cpc = "encoded" /\ cTy = "u16" /\ cIt = 256 /\ cToEndian = "Big"
    /\ cBytes = <<1, 0>>

\* C7 as stated: the 2-byte array [1, 0] decoded as a 16-bit value with
\* Little is 256.
DecodeLittle ==
    (cpc = "decoded" /\ Width(cTy) = 2 /\ cBytes = <<1, 0>>
        /\ cFromEndian = "Little")
    => cOut = 256

\* C7 as amended: the 2-byte array [1, 0] decoded as a 16-bit value with
\* Little is 1; it is [0, 1], the Big encoding of 1, that decodes to 256.
DecodeLittleAmended ==
    (cpc = "decoded" /\ Width(cTy) = 2 /\ cFromEndian = "Little")
    => /\ cBytes = <<1, 0>> => cOut = 1
       /\ cBytes = <<0, 1>> => cOut = 256

DecodeLittleWitness ==
    cpc = "decoded" /\ cTy = "u16" /\ cIt = 256 /\ cToEndian = "Big"
    /\ cBytes = <<1, 0>> /\ cFromEndian = "Little" /\ cOut = 1

\* C9: Native encodes and decodes as Big on a big-endian target and as Little
\* on a little-endian target; Network encodes and decodes as Big.
ModeEquivalence ==
    /\ (cpc # "start" /\ cToEndian = "Native")
        => cBytes = IF target_endian = "big" THEN to_be_bytes(cTy, cIt)
                    ELSE to_le_bytes(cTy, cIt)
    /\ (cpc # "start" /\ cToEndian = "Network")
        => cBytes = to_be_bytes(cTy, cIt)
    /\ (cpc = "decoded" /\ cFromEndian = "Native")
        => cOut = IF target_endian = "big" THEN from_be_bytes(cTy, cBytes)
                  ELSE from_le_bytes(cTy, cBytes)
    /\ (cpc = "decoded" /\ cFromEndian = "Network")
        => cOut = from_be_bytes(cTy, cBytes)

ModeEquivalenceWitness ==
    /\ cpc = "decoded" /\ target_endian = "little"
    /\ cTy = "u16" /\ cIt = 4660
    /\ cToEndian = "Network" /\ cBytes = <<18, 52>>
    /\ cFromEndian = "Native" /\ cOut = 13330

\* ------------------------------------------------------------------------
\* Properties of the streaming layer (checked under Spec)
\* ------------------------------------------------------------------------

\* C2: a read that meets the end of the source with fewer than N bytes
\* obtained fails with UnexpectedEof, and a read returns a value only from a
\* buffer holding N bytes of the source.
ShortReadFails ==
    /\ (rpc # "none" /\ rLast.kind = "Ok" /\ rLast.n = 0
            /\ rProgress < Width(rTy))
        => (rpc = "done" /\ rOut = ResErr("UnexpectedEof"))
    /\ (rpc = "done" /\ rOut.kind = "Ok")
        => /\ rProgress = Width(rTy)
           /\ rStart + Width(rTy) <= Len(stream)
           /\ rBuffer = SubSeq(stream, rStart + 1, rStart + Width(rTy))

ShortReadFailsWitness ==
    /\ rpc = "done" /\ rTy = "u16" /\ rProgress = 1
    /\ pos = Len(stream)
    /\ rLast = IoOk(0)
    /\ rOut = ResErr("UnexpectedEof")

\* C3: however the source cut the N bytes into transfers and however often
\* it was not ready, the value read is the one a single transfer of the N
\* bytes gives: the decoding of those N bytes of the source.
PartialReadSameValue ==
    (rpc = "done" /\ rOut.kind = "Ok")
    => rOut.val = from_bytes_endian(
                      rTy, SubSeq(stream, rStart + 1, rStart + Width(rTy)),
                      rEndian)

PartialReadSameValueWitness ==
    /\ rpc = "done" /\ rOut.kind = "Ok" /\ rFamily = "tokio"
    /\ rTy = "u16" /\ rOps = 2 /\ rSuspended
    /\ rStart = 1 /\ rOut.val = 4660

\* C4: when a write completes successfully, the bytes the sink accepted
\* during it, in order, are the encoding of the value with the mode.
PartialWriteSameBytes ==
    (wpc = "done" /\ wOut.kind = "Ok")
    => SubSeq(stream, wStart + 1, Len(stream))
        = to_bytes_endian(wTy, wIt, wEndian)

PartialWriteSameBytesWitness ==
    /\ wpc = "done" /\ wOut.kind = "Ok" /\ wFamily = "futures"
    /\ wTy = "u16" /\ wIt = 4660 /\ wEndian = "Little"
    /\ wOps = 2 /\ wSuspended
    /\ wStart = 1 /\ stream = <<200, 52, 18>>

\* C5: values written one after another and read back in the same order
\* with the same types and the same mode come back unchanged.
SequenceRoundTrip ==
    \A i \in 1..Len(readlog) :
        (\A j \in 1..i :
            /\ j <= Len(written)
            /\ written[j].out.kind = "Ok"
            /\ readlog[j].out.kind = "Ok"
            /\ readlog[j].ty = written[j].ty
            /\ readlog[j].endian = written[j].endian)
        => readlog[i].out.val = written[i].it

SequenceRoundTripWitness ==
    /\ Len(written) = 2 /\ Len(readlog) = 2
    /\ written[1].ty = "u8" /\ written[2].ty = "u16"
    /\ readlog[1].ty = "u8" /\ readlog[2].ty = "u16"
    /\ wMode = "Big" /\ rMode = "Big"
    /\ readlog[1].out = ResOk(200) /\ readlog[2].out = ResOk(4660)
    /\ rFamily = "futures" /\ rOps = 2

\* C8: a u16 written first with Big and read first with Little comes back
\* with its two bytes swapped; 1 comes back as 256.
WriteBigReadLittle ==
    (/\ Len(written) >= 1 /\ Len(readlog) >= 1
     /\ written[1].ty = "u16" /\ written[1].endian = "Big"
     /\ written[1].out.kind = "Ok"
     /\ readlog[1].ty = "u16" /\ readlog[1].endian = "Little"
     /\ readlog[1].out.kind = "Ok")
    => /\ readlog[1].out.val
            = (written[1].it % 256) * 256 + (written[1].it \div 256)
       /\ written[1].it = 1 => readlog[1].out.val = 256

WriteBigReadLittleWitness ==
    /\ Len(written) >= 1 /\ Len(readlog) >= 1
    /\ written[1] = [ty |-> "u16", it |-> 1, endian |-> "Big",
                     out |-> ResOk(0)]
    /\ readlog[1] = [ty |-> "u16", endian |-> "Little", out |-> ResOk(256)]

\* C10: when an underlying read or write of a future reports an error, the
\* future is done in that step with that very error, and from then on it
\* issues no I/O and changes nothing.
ErrorPropagation ==
    /\ [](/\ (rpc # "none" /\ rFamily # "io" /\ rLast.kind = "Err")
              => (rpc = "done" /\ rOut = ResErr(rLast.err))
          /\ (wpc # "none" /\ wFamily # "io" /\ wLast.kind = "Err")
              => (wpc = "done" /\ wOut = ResErr(wLast.err)))
    /\ [][/\ (rpc # "none" /\ rFamily # "io" /\ rLast.kind = "Err")
              => UNCHANGED <<readVars, pos, readlog>>
          /\ (wpc # "none" /\ wFamily # "io" /\ wLast.kind = "Err")
              => UNCHANGED <<writeVars, stream, written>>]_vars

ErrorPropagationWitness ==
    /\ rpc = "done" /\ rFamily = "futures" /\ rTy = "u16"
    /\ rProgress = 1 /\ rLast = IoErr("Interrupted")
    /\ rOut = ResErr("Interrupted")
    /\ pos = rStart + 1

\* C11: a read machine of a zero-width type completes at once with the
\* decoded value and issues no read to the underlying source.
ZeroWidthReadsNothing ==
    (rpc # "none" /\ Width(rTy) = 0)
    => /\ rLast = IoNone
       /\ (rpc = "done" /\ rOut.kind # "Dropped")
           => rOut = ResOk(from_bytes_endian(rTy, rBuffer, rEndian))

\* C12: when an underlying write of a write future reports zero bytes while
\* the cursor is below N, the future does not fail: the cursor, the buffer and
\* the sink stay as they are, the loop goes on, and its next step is another
\* write of the same unwritten suffix.
WriteZeroProgress ==
    /\ []((/\ wpc # "none" /\ wFamily # "io"
            /\ wLast = IoOk(0) /\ wProgress < Len(wBuffer))
           => /\ wpc = "running"
              /\ wOut = ResNone
              /\ Len(stream) = wStart + wProgress
              /\ ENABLED WritePoll)
    /\ [][(/\ wpc \in {"suspended", "running"} /\ wFamily # "io"
            /\ wLast' = IoOk(0) /\ wProgress < Len(wBuffer))
           => /\ wProgress' = wProgress
              /\ wBuffer' = wBuffer
              /\ WriteSlice(wBuffer', wProgress') = WriteSlice(wBuffer, wProgress)
              /\ stream' = stream
              /\ wpc' = "running"]_vars

WriteZeroProgressWitness ==
    /\ wpc = "running" /\ wFamily = "tokio" /\ wTy = "u16"
    /\ wProgress = 1 /\ wOps = 1 /\ wLast = IoOk(0)
    /\ wOut = ResNone
    /\ Len(stream) = wStart + 1

\* C13: canonical() maps Little to Little, Big and Network to Big, and Native
\* to the one of Little and Big that the build target fixes; its result is
\* always Little or Big, applying it again changes nothing, and of is_big()
\* and is_little() exactly one is true, the one that names canonical().
Canonicalization ==
    eCall.called
    => /\ eCall.canonical \in {"Little", "Big"}
       /\ eCall.self = "Little" => eCall.canonical = "Little"
       /\ eCall.self \in {"Big", "Network"} => eCall.canonical = "Big"
       /\ eCall.self = "Native"
           => eCall.canonical
                = (IF target_endian = "little" THEN "Little" ELSE "Big")
       /\ eCall.again = eCall.canonical
       /\ eCall.is_big # eCall.is_little
       /\ eCall.is_big = (eCall.canonical = "Big")
       /\ eCall.is_little = (eCall.canonical = "Little")

CanonicalizationWitness ==
    /\ eCall.called /\ eCall.self = "Native" /\ target_endian = "little"
    /\ eCall.canonical = "Little" /\ eCall.again = "Little"
    /\ eCall.is_little /\ ~eCall.is_big

\* C14: every underlying read of a read machine is given the buffer range
\* [cursor, N) and nothing else: it transfers at most N - cursor bytes, a read
\* of k > 0 bytes moves the cursor by exactly k and stores the k bytes at
\* the positions from the cursor on, the positions below the cursor keep
\* their bytes, and so the i-th byte the source delivered is the i-th byte
\* of the buffer.
ReadIntoSuffix ==
    /\ [](rpc # "none"
           => /\ pos = rStart + rProgress
              /\ rProgress <= Len(rBuffer)
              /\ \A i \in 1..rProgress : rBuffer[i] = stream[rStart + i]
              /\ \A i \in (rProgress + 1)..Len(rBuffer) : rBuffer[i] = 0)
    /\ [][(rpc \in {"suspended", "running"} /\ pos' # pos)
           => /\ rLast' = IoOk(pos' - pos)
              /\ pos' - pos <= Len(rBuffer) - rProgress
              /\ rProgress' = rProgress + (pos' - pos)
              /\ \A i \in 1..rProgress : rBuffer'[i] = rBuffer[i]
              /\ \A j \in 1..(pos' - pos) :
                    rBuffer'[rProgress + j] = stream[pos + j]]_vars

ReadIntoSuffixWitness ==
    /\ rpc = "done" /\ rFamily = "futures" /\ rTy = "u16"
    /\ rStart = 1 /\ rOps = 2 /\ rProgress = 2 /\ rLast = IoOk(1)
    /\ Len(stream) >= 3
    /\ rBuffer = <<stream[2], stream[3]>>
    /\ stream[2] # stream[3]

\* C15: when an underlying read or write reports not-ready, the drive step
\* returns pending and leaves the cursor, the buffer, the endianness and the
\* stream as they were; the next transfer of the suspended machine starts
\* at that cursor, so no byte is read or written a second time.
SuspensionKeepsState ==
    /\ [](/\ (rpc # "none" /\ rLast = IoPending /\ rOut.kind # "Dropped")
              => /\ rpc = "suspended" /\ rOut = ResNone
                 /\ pos = rStart + rProgress
          /\ (wpc # "none" /\ wLast = IoPending)
              => /\ wpc = "suspended" /\ wOut = ResNone
                 /\ Len(stream) = wStart + wProgress)
    /\ [][/\ (/\ rpc \in {"suspended", "running"}
               /\ rLast' = IoPending /\ rOut'.kind # "Dropped")
              => /\ UNCHANGED <<rProgress, rBuffer, rEndian, pos>>
                 /\ rpc' = "suspended"
          /\ (wpc \in {"suspended", "running"} /\ wLast' = IoPending)
              => /\ UNCHANGED <<wProgress, wBuffer, wEndian, stream>>
                 /\ wpc' = "suspended"
          /\ (rpc = "suspended" /\ pos' # pos)
              => /\ rProgress' = rProgress + (pos' - pos)
                 /\ SubSeq(rBuffer', 1, rProgress) = SubSeq(rBuffer, 1, rProgress)
                 /\ SubSeq(rBuffer', rProgress + 1, rProgress')
                      = SubSeq(stream, pos + 1, pos')
          /\ (wpc = "suspended" /\ stream' # stream)
              => stream' = stream \o SubSeq(wBuffer, wProgress + 1, wProgress')
         ]_vars

SuspensionKeepsStateWitness ==
    /\ rpc = "suspended" /\ rFamily = "tokio" /\ rTy = "u16"
    /\ rLast = IoPending /\ rProgress = 1 /\ rOps = 1
    /\ rBuffer = <<stream[rStart + 1], 0>>
    /\ pos = rStart + 1

\* C16: with underlying operations that report at most the length of the
\* slice they were given, the cursor of a read machine and of a write machine
\* is within 0..N in every state, is 0 when the machine is created, and no
\* step of the machine lowers it.
CursorBounds ==
    /\ [](/\ rpc # "none"
              => /\ Len(rBuffer) = Width(rTy)
                 /\ rProgress \in 0..Len(rBuffer)
                 /\ rLast = IoNone => rProgress = 0
          /\ wpc # "none"
              => /\ Len(wBuffer) = Width(wTy)
                 /\ wProgress \in 0..Len(wBuffer)
                 /\ wLast = IoNone => wProgress = 0)
    /\ [][/\ (rpc \notin {"suspended", "running"}
               /\ rpc' \in {"suspended", "running"}) => rProgress' = 0
          /\ (wpc \notin {"suspended", "running"}
               /\ wpc' \in {"suspended", "running"}) => wProgress' = 0
          /\ rpc \in {"suspended", "running"} => rProgress' >= rProgress
          /\ wpc \in {"suspended", "running"} => wProgress' >= wProgress
         ]_vars

CursorBoundsWitness ==
    /\ wpc = "done" /\ wFamily = "futures" /\ wTy = "u16"
    /\ wProgress = 2 /\ wOps = 2 /\ wSuspended
    /\ wOut = ResOk(0)
    /\ wStart = 1

\* C17: the buffer of a write machine is the encoding of the value in the
\* mode it was created with, already when the machine exists and no I/O has
\* been issued, and no step of the machine (a partial write, a zero-byte
\* write, a suspension, an error) changes it, or the value or the mode.
EncodeOnce ==
    /\ [](wpc # "none"
           => /\ wBuffer = to_bytes_endian(wTy, wIt, wEndian)
              /\ wEndian = wMode)
    /\ [][(wpc \in {"suspended", "running"})
           => UNCHANGED <<wBuffer, wTy, wIt, wEndian>>]_vars

EncodeOnceWitness ==
    /\ wpc = "suspended" /\ wFamily = "tokio"
    /\ wLast = IoNone /\ wProgress = 0 /\ wOps = 0
    /\ wTy = "u16" /\ wIt = 4660 /\ wEndian = "Big"
    /\ wBuffer = <<18, 52>>
    /\ Len(stream) = wStart

\* C18: a read machine is done with Ok in the very step that brings its
\* cursor to N, and issues no read after it; the value is
\* from_bytes_endian(buffer, endian) for the endianness it was created with,
\* which no step changes; and it is never done with Ok while the cursor is
\* below N.
ReadCompletion ==
    /\ [](rpc # "none"
           => /\ rEndian = rMode
              /\ rProgress >= Len(rBuffer)
                  => /\ rpc = "done"
                     /\ rOut = ResOk(from_bytes_endian(rTy, rBuffer, rEndian))
              /\ rOut.kind = "Ok"
                  => (rpc = "done" /\ rProgress = Len(rBuffer)))
    /\ [][/\ (rpc \in {"suspended", "running"}) => rEndian' = rEndian
          /\ (/\ rpc \in {"suspended", "running"}
               /\ rProgress < Len(rBuffer) /\ rProgress' >= Len(rBuffer))
              => /\ rpc' = "done"
                 /\ rOut' = ResOk(from_bytes_endian(rTy, rBuffer', rEndian))
          /\ (rpc = "done" /\ rpc' = "done")
              => UNCHANGED <<pos, rLast, rOps, rBuffer, rProgress>>
         ]_vars

ReadCompletionWitness ==
    /\ rpc = "done" /\ rFamily = "futures" /\ rTy = "u16"
    /\ rEndian = "Big" /\ rBuffer = <<18, 52>>
    /\ rProgress = 2 /\ rOps = 2 /\ rLast = IoOk(1)
    /\ rOut = ResOk(4660)
    /\ Len(stream) > pos

\* C19: a write machine reports success only with its cursor at N, when the
\* sink holds all N bytes of the buffer, and it reports it in the very step
\* that brings the cursor to N, with no write issued after it.
WriteCompletion ==
    /\ [](wpc # "none"
           => /\ wOut.kind = "Ok"
                  => /\ wpc = "done"
                     /\ wProgress = Len(wBuffer)
                     /\ Len(stream) = wStart + Len(wBuffer)
                     /\ SubSeq(stream, wStart + 1, Len(stream)) = wBuffer
              /\ wProgress >= Len(wBuffer)
                  => (wpc = "done" /\ wOut = ResOk(0)))
    /\ [][/\ (/\ wpc \in {"suspended", "running"}
               /\ wProgress < Len(wBuffer) /\ wProgress' >= Len(wBuffer))
              => (wpc' = "done" /\ wOut' = ResOk(0))
          /\ (wpc = "done" /\ wpc' = "done")
              => UNCHANGED <<stream, wLast, wOps, wProgress>>
         ]_vars

WriteCompletionWitness ==
    /\ wpc = "done" /\ wFamily = "tokio" /\ wTy = "u16" /\ wIt = 4660
    /\ wProgress = 2 /\ wOps = 2 /\ wLast = IoOk(1)
    /\ wOut = ResOk(0)
    /\ Len(stream) = wStart + 2

\* C20: dropping a read machine that has consumed k bytes, 0 < k < N, rolls
\* nothing back: the source stays advanced by k.  A read machine created
\* afterwards on the same source has cursor 0 and an all-zero buffer, starts
\* at the advanced position, and its value is decoded from the bytes after
\* that position only.
CancellationAbandons ==
    /\ [](/\ rOut.kind = "Dropped"
              => /\ rpc = "done"
                 /\ rProgress < Len(rBuffer)
                 /\ pos = rStart + rProgress
          /\ (rpc \in {"suspended", "running"} /\ rLast = IoNone)
              => /\ rProgress = 0
                 /\ rBuffer = Zeroes(Width(rTy))
                 /\ rStart = pos
          /\ (rpc # "none" /\ rOut.kind = "Ok")
              => rOut.val
                   = from_bytes_endian(rTy,
                        SubSeq(stream, rStart + 1, rStart + Width(rTy)),
                        rEndian))
    /\ [][/\ (rOut.kind # "Dropped" /\ rOut'.kind = "Dropped")
              => UNCHANGED <<pos, stream, rProgress, rBuffer>>
          /\ (rOut.kind = "Dropped" /\ rpc' # "done")
              => /\ pos' = pos
                 /\ rStart' = rStart + rProgress
                 /\ rProgress' = 0
                 /\ rBuffer' = Zeroes(Width(rTy'))
         ]_vars

CancellationAbandonsWitness ==
    /\ Len(readlog) = 2
    /\ readlog[1].ty = "u16" /\ readlog[1].out = ResDropped
    /\ rStart = 1
    /\ rpc = "done" /\ rTy = "u16" /\ rFamily = "futures"
    /\ Len(stream) = 3 /\ stream[1] = 200
    /\ rOut = ResOk(from_bytes_endian("u16", <<stream[2], stream[3]>>, rEndian))
    /\ rOut.val # from_bytes_endian("u16", <<stream[1], stream[2]>>, rEndian)

\* C21: with underlying operations that report at most the length of the
\* slice they were given, a read machine never takes more than N bytes from
\* its source and has taken exactly N when it is done with Ok; a write
\* machine never gives its sink more than N bytes and has given exactly N
\* when it is done with Ok; the machine created next on the same stream
\* starts at the byte right after those N.
ExactConsumption ==
    /\ [](/\ rpc # "none"
              => /\ pos <= rStart + Width(rTy)
                 /\ rOut.kind = "Ok" => pos = rStart + Width(rTy)
          /\ wpc # "none"
              => /\ Len(stream) <= wStart + Width(wTy)
                 /\ wOut.kind = "Ok" => Len(stream) = wStart + Width(wTy))
    /\ [][/\ (/\ rpc = "done" /\ rOut.kind = "Ok"
               /\ rpc' \in {"suspended", "running"})
              => rStart' = rStart + Width(rTy)
          /\ (/\ wpc = "done" /\ wOut.kind = "Ok"
               /\ wpc' \in {"suspended", "running"})
              => wStart' = wStart + Width(wTy)
         ]_vars

ExactConsumptionWitness ==
    /\ Len(readlog) = 2
    /\ readlog[1].ty = "u8" /\ readlog[1].out.kind = "Ok"
    /\ rpc = "done" /\ rFamily = "tokio" /\ rTy = "u16"
    /\ rStart = 1 /\ rOps = 2 /\ pos = 3
    /\ rOut.kind = "Ok"
    /\ Len(written) = 2 /\ written[2].ty = "u16" /\ Len(stream) = 3

\* C22: every drive step of a read future and of a write future returns
\* (pending, done or failed) after finitely many underlying operations: a
\* future that is inside its poll loop eventually leaves it.
DriveStepReturns ==
    /\ (rpc = "running" /\ rFamily # "io") ~> (rpc # "running")
    /\ (wpc = "running" /\ wFamily # "io") ~> (wpc # "running")

\* C23: for every value, byte array and mode, what to_bytes_endian returns
\* for the mode is what it returns for the mode's canonical(), and what
\* from_bytes_endian returns for the mode is what it returns for the mode's
\* canonical().
DispatchAgreesWithCanonical ==
    /\ cpc \in {"encoded", "decoded"}
        => cBytes = to_bytes_endian(cTy, cIt, canonical(cToEndian))
    /\ cpc = "decoded"
        => cOut = from_bytes_endian(cTy, cBytes, canonical(cFromEndian))

DispatchAgreesWithCanonicalWitness ==
    /\ cpc = "decoded" /\ target_endian = "big"
    /\ cTy = "u16" /\ cIt = 256
    /\ cToEndian = "Network" /\ cBytes = <<1, 0>>
    /\ cFromEndian = "Native" /\ cOut = 256

====
